---- MODULE Spec2Model ----
(***************************************************************************)
(* Model of analisis_egocentrico.py: main() and the functions it calls.    *)
(* The state is main's local variables, its position, the console output   *)
(* (one tag per message) and the log of the calls made on the outside      *)
(* world (SDK client, API requests, prompts, file and chart writers).      *)
(* Python values: None is NoneVal, a list is PyList(<<...>>), a dict is a  *)
(* function whose DOMAIN is its key set, a str is a sequence of            *)
(* one-character strings.  Texts, language and source tags of posts and    *)
(* the printed means are not modelled; they decide no branch.              *)
(***************************************************************************)
EXTENDS Integers, Sequences, FiniteSets, TLC

VARIABLES pc, token, client, username, count, user_info, tweets, df, report,
          save_option, plot_option, out, calls, exc

vars == <<pc, token, client, username, count, user_info, tweets, df, report,
          save_option, plot_option, out, calls, exc>>

-----------------------------------------------------------------------------
(* Bounds and input domains *)

MaxTweets == 2

TweetIds == {1, 2}

Timestamps == {1, 2}

MetricValues == {0, 1}

\* The literal passed by main as count, and the cap of one API page.
MainCount == 10

MaxPage == 100

CountInputs == {-1, 0, 1, 2, 10, 50, 100, 101, 150}

\* The placeholder literal of main (its accented last letter written in ASCII).
Placeholder == "TU_BEARER_TOKEN_AQUI"

Tokens == {Placeholder, "REAL_TOKEN"}

\* What the operator may type at the username prompt.
NameInputs == {<<>>, <<" ">>, <<" ", " ">>, <<"a">>, <<" ", "a">>, <<"a", " ">>}

\* What the operator may type at a yes/no prompt.
Answers == {<<"s">>, <<"S">>, <<"n">>}

-----------------------------------------------------------------------------
(* Python values *)

NoneVal == [type |-> "NoneType"]

PyList(s) == [type |-> "list", items |-> s]

PyStr(s) == [type |-> "str", chars |-> s]

\* bool(v) for None and lists.
Truthy(v) == v.type # "NoneType" /\ (v.type = "list" => Len(v.items) > 0)

TheUser == [type |-> "User", id |-> 1]

TheClient == [type |-> "Client"]

Whitespace == {" "}

RECURSIVE LStrip(_)
LStrip(s) == IF s # <<>> /\ Head(s) \in Whitespace THEN LStrip(Tail(s)) ELSE s

RECURSIVE RStrip(_)
RStrip(s) ==
    IF s # <<>> /\ s[Len(s)] \in Whitespace
    THEN RStrip(SubSeq(s, 1, Len(s) - 1))
    ELSE s

\* str.strip()
Strip(s) == RStrip(LStrip(s))

LowerChar(c) == CASE c = "S" -> "s" [] c = "N" -> "n" [] OTHER -> c

\* str.lower()
Lower(s) == [i \in 1..Len(s) |-> LowerChar(s[i])]

Min(a, b) == IF a <= b THEN a ELSE b

-----------------------------------------------------------------------------
(* Posts as the API returns them *)

RequiredKeys == {"like_count", "retweet_count", "reply_count"}

OptionalKeys == {"impression_count", "quote_count"}

\* public_metrics dicts: the required counters alone, the required counters
\* with both optional counters, and dicts of a malformed payload that lack
\* like_count.
KeySets == {RequiredKeys, RequiredKeys \cup OptionalKeys,
            RequiredKeys \ {"like_count"}}

MetricDicts ==
    {d \in UNION {[K -> MetricValues] : K \in KeySets} :
        /\ d["reply_count"] = 0
        /\ "like_count" \notin DOMAIN d => d["retweet_count"] = 0
        /\ "quote_count" \in DOMAIN d =>
               /\ d["quote_count"] = 1
               /\ d["impression_count"] = 1
               /\ d["retweet_count"] = 0}

Tweets == [id : TweetIds, created_at : Timestamps, public_metrics : MetricDicts]

TweetLists == UNION {[1..n -> Tweets] : n \in 0..MaxTweets}

-----------------------------------------------------------------------------
(* get_user_tweets_with_metrics *)

\* Mutant: the count passed on without the cap.
MaxResults_NoCap(c) == c

\* The max_results argument of get_users_tweets.
MaxResults(c) == Min(c, MaxPage)

\* What client.get_user can do: raise TooManyRequests, raise another
\* exception, answer without data, answer with the account.
GetUserOutcomes == {"TooManyRequests", "Exception", "no_data", "user"}

\* What client.get_users_tweets can do; its data is None or a non-empty list
\* of at most max_results posts.
GetUsersTweetsOutcomes(max_results) ==
    {[kind |-> "TooManyRequests"], [kind |-> "Exception"],
     [kind |-> "data", data |-> NoneVal]}
    \cup {[kind |-> "data", data |-> PyList(ts)] :
             ts \in {l \in TweetLists : Len(l) > 0 /\ Len(l) <= max_results}}

\* Mutant: the data is returned as it came.
DataOrEmpty_Raw(data) == data

\* tweets_response.data if tweets_response.data else []
DataOrEmpty(data) == IF Truthy(data) THEN data ELSE PyList(<<>>)

\* The pair returned and the message printed last, for each way the two
\* requests can end.
FetchResult(u, t) ==
    CASE u = "TooManyRequests" ->
            [user |-> NoneVal, tweets |-> NoneVal, msg |-> "ErrRateLimit"]
      [] u = "Exception" ->
            [user |-> NoneVal, tweets |-> NoneVal, msg |-> "ErrFetch"]
      [] u = "no_data" ->
            [user |-> NoneVal, tweets |-> NoneVal, msg |-> "ErrUserNotFound"]
      [] u = "user" /\ t.kind = "TooManyRequests" ->
            [user |-> NoneVal, tweets |-> NoneVal, msg |-> "ErrRateLimit"]
      [] u = "user" /\ t.kind = "Exception" ->
            [user |-> NoneVal, tweets |-> NoneVal, msg |-> "ErrFetch"]
      [] OTHER ->
            [user |-> TheUser, tweets |-> DataOrEmpty(t.data), msg |-> "TweetsFound"]

\* The call with count c: get_user, then (only for an existing account)
\* get_users_tweets, then the return.
GetUserTweetsWithMetrics(c) ==
    /\ pc = "fetch"
    /\ \E u \in GetUserOutcomes :
         \E t \in GetUsersTweetsOutcomes(MaxResults(c)) :
            LET r == FetchResult(u, t) IN
            /\ user_info' = r.user
            /\ tweets' = r.tweets
            /\ out' = IF u = "user"
                      THEN out \o <<"UserFound", r.msg>>
                      ELSE Append(out, r.msg)
            /\ calls' = IF u = "user"
                        THEN calls \o
                             <<[fn |-> "get_user"],
                               [fn |-> "get_users_tweets",
                                max_results |-> MaxResults(c)]>>
                        ELSE Append(calls, [fn |-> "get_user"])
    /\ count' = c
    /\ pc' = "fetched"
    /\ UNCHANGED <<token, client, username, df, report, save_option,
                   plot_option, exc>>

-----------------------------------------------------------------------------
(* create_metrics_dataframe *)

\* Mutant: the default is not used for an absent key.
DictGet_NoDefault(d, k, default) == IF k \in DOMAIN d THEN d[k] ELSE default - 1

\* dict.get(k, default)
DictGet(d, k, default) == IF k \in DOMAIN d THEN d[k] ELSE default

\* tweet_info is built with d[k] for the required counters: a KeyError when
\* one is absent.
RaisesKeyError(t) == ~(RequiredKeys \subseteq DOMAIN t.public_metrics)

TweetInfo(t) ==
    [id         |-> t.id,
     fecha      |-> t.created_at,
     likes      |-> t.public_metrics["like_count"],
     retweets   |-> t.public_metrics["retweet_count"],
     respuestas |-> t.public_metrics["reply_count"],
     vistas     |-> DictGet(t.public_metrics, "impression_count", 0),
     citas      |-> DictGet(t.public_metrics, "quote_count", 0)]

\* The list tweets_data after the loop.
TweetsData(ts) == [i \in 1..Len(ts) |-> TweetInfo(ts[i])]

IndexPermutations(n) == {p \in [1..n -> 1..n] : \A i, j \in 1..n : i # j => p[i] # p[j]}

\* Mutant: ascending=True.
SortValuesAsc(rows) ==
    {tbl \in {[i \in 1..Len(rows) |-> rows[p[i]]] : p \in IndexPermutations(Len(rows))} :
        \A i \in 1..(Len(tbl) - 1) : tbl[i].fecha <= tbl[i + 1].fecha}

\* df.sort_values('fecha', ascending=False).reset_index(drop=True): the rows
\* in an order of non-increasing fecha.  The default sort kind is not stable,
\* so rows of equal fecha may come out in any relative order.
SortValuesDesc(rows) ==
    {tbl \in {[i \in 1..Len(rows) |-> rows[p[i]]] : p \in IndexPermutations(Len(rows))} :
        \A i \in 1..(Len(tbl) - 1) : tbl[i].fecha >= tbl[i + 1].fecha}

\* The call raises when a post lacks a required counter, and for an empty
\* list, whose frame has no column 'fecha' to sort by.
CreateRaises(ts) == ts = <<>> \/ \E i \in 1..Len(ts) : RaisesKeyError(ts[i])

\* The tables the call can return when it does not raise.
CreateMetricsDataframe(ts) == SortValuesDesc(TweetsData(ts))

-----------------------------------------------------------------------------
(* display_detailed_metrics *)

Column(tbl, name) == [i \in 1..Len(tbl) |-> tbl[i][name]]

RECURSIVE Sum(_)
Sum(col) == IF col = <<>> THEN 0 ELSE Head(col) + Sum(Tail(col))

\* Mutant: the last occurrence of the maximum.
IdxMax_Last(col) ==
    CHOOSE i \in 1..Len(col) :
        /\ \A j \in 1..Len(col) : col[j] <= col[i]
        /\ \A j \in (i + 1)..Len(col) : col[j] < col[i]

\* Series.idxmax(): the first occurrence of the maximum, as a position 1..n
\* of the table (the index was reset, so labels and positions agree).
IdxMax(col) ==
    CHOOSE i \in 1..Len(col) :
        /\ \A j \in 1..Len(col) : col[j] <= col[i]
        /\ \A j \in 1..(i - 1) : col[j] < col[i]

\* idxmax of an empty column raises ValueError.
ReportRaises(tbl) == Len(tbl) = 0

\* A top post of the report: the position of its row in the table.
Shown(i) == [shown |-> TRUE, idx |-> i]

NotShown == [shown |-> FALSE]

\* What the report prints: the totals, the rows of the top posts, and the
\* top post by views only when the views total is positive.
DetailedMetrics(tbl) ==
    [n          |-> Len(tbl),
     likes      |-> Sum(Column(tbl, "likes")),
     retweets   |-> Sum(Column(tbl, "retweets")),
     respuestas |-> Sum(Column(tbl, "respuestas")),
     vistas     |-> Sum(Column(tbl, "vistas")),
     citas      |-> Sum(Column(tbl, "citas")),
     max_likes  |-> Shown(IdxMax(Column(tbl, "likes"))),
     max_rts    |-> Shown(IdxMax(Column(tbl, "retweets"))),
     max_views  |-> IF Sum(Column(tbl, "vistas")) > 0
                    THEN Shown(IdxMax(Column(tbl, "vistas")))
                    ELSE NotShown]

-----------------------------------------------------------------------------
(* main *)

Init ==
    /\ pc = "start"
    /\ token \in Tokens
    /\ client = NoneVal
    /\ username = <<>>
    /\ count = 0
    /\ user_info = NoneVal
    /\ tweets = NoneVal
    /\ df = NoneVal
    /\ report = NoneVal
    /\ save_option = NoneVal
    /\ plot_option = NoneVal
    /\ out = <<>>
    /\ calls = <<>>
    /\ exc = NoneVal

\* Mutant: the setup steps are printed without the return.
CheckToken_NoReturn ==
    /\ pc = "start"
    /\ out' = IF token = Placeholder THEN Append(out, "ConfigRequired") ELSE out
    /\ pc' = "setup"
    /\ UNCHANGED <<token, client, username, count, user_info, tweets, df,
                   report, save_option, plot_option, calls, exc>>

\* if BEARER_TOKEN == placeholder: print the setup steps and return.
CheckToken ==
    /\ pc = "start"
    /\ IF token = Placeholder
       THEN /\ out' = Append(out, "ConfigRequired")
            /\ pc' = "done"
       ELSE /\ out' = out
            /\ pc' = "setup"
    /\ UNCHANGED <<token, client, username, count, user_info, tweets, df,
                   report, save_option, plot_option, calls, exc>>

\* client = setup_twitter_client(BEARER_TOKEN); if not client: return.
\* The constructor either returns a client or raises; the function catches.
SetupTwitterClient ==
    /\ pc = "setup"
    /\ calls' = Append(calls, [fn |-> "Client"])
    /\ \E raised \in BOOLEAN :
         IF raised
         THEN /\ client' = NoneVal
              /\ out' = Append(out, "ErrClient")
              /\ pc' = "done"
         ELSE /\ client' = TheClient
              /\ out' = Append(out, "ClientOk")
              /\ pc' = "ask_username"
    /\ UNCHANGED <<token, username, count, user_info, tweets, df, report,
                   save_option, plot_option, exc>>

\* username = input(...).strip(); if not username: return.
AskUsername ==
    /\ pc = "ask_username"
    /\ \E typed \in NameInputs :
         /\ username' = Strip(typed)
         /\ calls' = Append(calls, [fn |-> "input_username"])
         /\ IF Strip(typed) = <<>>
            THEN /\ out' = Append(out, "ErrUsername")
                 /\ pc' = "done"
            ELSE /\ out' = Append(out, "Fetching")
                 /\ pc' = "fetch"
    /\ UNCHANGED <<token, client, count, user_info, tweets, df, report,
                   save_option, plot_option, exc>>

\* user_info, tweets = get_user_tweets_with_metrics(client, username, count=10)
Fetch == GetUserTweetsWithMetrics(MainCount)

\* Mutant: if tweets is None.
CheckTweets_NoneOnly ==
    /\ pc = "fetched"
    /\ IF tweets = NoneVal
       THEN /\ out' = Append(out, "ErrNoTweets")
            /\ pc' = "done"
       ELSE /\ out' = out
            /\ pc' = "build"
    /\ UNCHANGED <<token, client, username, count, user_info, tweets, df,
                   report, save_option, plot_option, calls, exc>>

\* if not tweets: print the failure and return.
CheckTweets ==
    /\ pc = "fetched"
    /\ IF ~Truthy(tweets)
       THEN /\ out' = Append(out, "ErrNoTweets")
            /\ pc' = "done"
       ELSE /\ out' = out
            /\ pc' = "build"
    /\ UNCHANGED <<token, client, username, count, user_info, tweets, df,
                   report, save_option, plot_option, calls, exc>>

\* df = create_metrics_dataframe(tweets), called outside any try.
Build ==
    /\ pc = "build"
    /\ calls' = Append(calls, [fn |-> "create_metrics_dataframe"])
    /\ IF CreateRaises(tweets.items)
       THEN /\ exc' = [type |-> "KeyError"]
            /\ pc' = "crashed"
            /\ df' = df
       ELSE /\ df' \in {PyList(tbl) : tbl \in CreateMetricsDataframe(tweets.items)}
            /\ pc' = "report"
            /\ exc' = exc
    /\ UNCHANGED <<token, client, username, count, user_info, tweets, report,
                   save_option, plot_option, out>>

\* display_detailed_metrics(df, username); display_tweets_table(df), called
\* outside any try.
Report ==
    /\ pc = "report"
    /\ calls' = Append(calls, [fn |-> "display_detailed_metrics"])
    /\ IF ReportRaises(df.items)
       THEN /\ exc' = [type |-> "ValueError"]
            /\ pc' = "crashed"
            /\ UNCHANGED <<report, out>>
       ELSE /\ report' = DetailedMetrics(df.items)
            /\ out' = out \o <<"Statistics", "TopTweets", "TweetsTable">>
            /\ pc' = "ask_save"
            /\ exc' = exc
    /\ UNCHANGED <<token, client, username, count, user_info, tweets, df,
                   save_option, plot_option>>

\* Mutant: save_analysis_to_excel without its try/except.
SaveStep_Uncaught ==
    /\ pc = "ask_save"
    /\ \E typed \in Answers :
         /\ save_option' = PyStr(Lower(typed))
         /\ IF Lower(typed) = <<"s">>
            THEN /\ calls' = calls \o <<[fn |-> "input_save"],
                                        [fn |-> "save_analysis_to_excel"]>>
                 /\ \E raised \in BOOLEAN :
                      IF raised
                      THEN /\ exc' = [type |-> "OSError"]
                           /\ pc' = "crashed"
                           /\ out' = out
                      ELSE /\ exc' = exc
                           /\ pc' = "ask_plot"
                           /\ out' = Append(out, "Saved")
            ELSE /\ calls' = Append(calls, [fn |-> "input_save"])
                 /\ out' = out
                 /\ exc' = exc
                 /\ pc' = "ask_plot"
    /\ UNCHANGED <<token, client, username, count, user_info, tweets, df,
                   report, plot_option>>

\* save_option = input(...).lower(); if save_option == 's':
\* save_analysis_to_excel(df, username, user_info).  The writer either
\* succeeds or raises; the function catches and main goes on.
SaveStep ==
    /\ pc = "ask_save"
    /\ \E typed \in Answers :
         /\ save_option' = PyStr(Lower(typed))
         /\ IF Lower(typed) = <<"s">>
            THEN /\ calls' = calls \o <<[fn |-> "input_save"],
                                        [fn |-> "save_analysis_to_excel"]>>
                 /\ \E raised \in BOOLEAN :
                      out' = Append(out, IF raised THEN "ErrExcel" ELSE "Saved")
            ELSE /\ calls' = Append(calls, [fn |-> "input_save"])
                 /\ out' = out
    /\ pc' = "ask_plot"
    /\ UNCHANGED <<token, client, username, count, user_info, tweets, df,
                   report, plot_option, exc>>

\* Mutant: plot_metrics called whatever the answer.
PlotStep_Always ==
    /\ pc = "ask_plot"
    /\ \E typed \in Answers :
         /\ plot_option' = PyStr(Lower(typed))
         /\ calls' = calls \o <<[fn |-> "input_plot"], [fn |-> "plot_metrics"]>>
         /\ \E raised \in BOOLEAN :
              out' = Append(out, IF raised THEN "ErrPlot" ELSE "Plotted")
    /\ pc' = "finish"
    /\ UNCHANGED <<token, client, username, count, user_info, tweets, df,
                   report, save_option, exc>>

\* plot_option = input(...).lower(); if plot_option == 's':
\* plot_metrics(df, username).  The rendering either succeeds or raises; the
\* function catches and main goes on.
PlotStep ==
    /\ pc = "ask_plot"
    /\ \E typed \in Answers :
         /\ plot_option' = PyStr(Lower(typed))
         /\ IF Lower(typed) = <<"s">>
            THEN /\ calls' = calls \o <<[fn |-> "input_plot"],
                                        [fn |-> "plot_metrics"]>>
                 /\ \E raised \in BOOLEAN :
                      out' = Append(out, IF raised THEN "ErrPlot" ELSE "Plotted")
            ELSE /\ calls' = Append(calls, [fn |-> "input_plot"])
                 /\ out' = out
    /\ pc' = "finish"
    /\ UNCHANGED <<token, client, username, count, user_info, tweets, df,
                   report, save_option, exc>>

\* The closing message of main.
Finish ==
    /\ pc = "finish"
    /\ out' = Append(out, "Completed")
    /\ pc' = "done"
    /\ UNCHANGED <<token, client, username, count, user_info, tweets, df,
                   report, save_option, plot_option, calls, exc>>

Next ==
    \/ CheckToken
    \/ SetupTwitterClient
    \/ AskUsername
    \/ Fetch
    \/ CheckTweets
    \/ Build
    \/ Report
    \/ SaveStep
    \/ PlotStep
    \/ Finish

Spec == Init /\ [][Next]_vars

\* get_user_tweets_with_metrics on its own, called with any count by a caller
\* that holds a client and a username.
InitFetch ==
    /\ pc = "fetch"
    /\ token = "REAL_TOKEN"
    /\ client = TheClient
    /\ username = <<"a">>
    /\ count = 0
    /\ user_info = NoneVal
    /\ tweets = NoneVal
    /\ df = NoneVal
    /\ report = NoneVal
    /\ save_option = NoneVal
    /\ plot_option = NoneVal
    /\ out = <<>>
    /\ calls = <<>>
    /\ exc = NoneVal

FetchAnyCount == \E c \in CountInputs : GetUserTweetsWithMetrics(c)

NextFetch == FetchAnyCount

SpecFetch == InitFetch /\ [][NextFetch]_vars

-----------------------------------------------------------------------------
(* Vocabulary of the properties *)

Called(f) == \E i \in 1..Len(calls) : calls[i].fn = f

Printed(m) == \E i \in 1..Len(out) : out[i] = m

LastPrinted == IF out = <<>> THEN "" ELSE out[Len(out)]

NetworkCalls == {"get_user", "get_users_tweets"}

\* How the fetch of this run ended, read off the message it printed.
FetchOutcome ==
    CASE Printed("ErrUserNotFound") -> "not_found"
      [] Printed("ErrRateLimit") -> "rate_limit"
      [] Printed("ErrFetch") -> "failure"
      [] Printed("TweetsFound") /\ ~Truthy(tweets) -> "empty"
      [] Printed("TweetsFound") /\ Truthy(tweets) -> "posts"
      [] OTHER -> "none"

FourOutcomes == {"not_found", "rate_limit", "failure", "empty"}

\* The outcome of a pair of API answers, and the pairs the function returns
\* for an outcome.
OutcomeOf(u, t) ==
    CASE u = "no_data" -> "not_found"
      [] u = "TooManyRequests" -> "rate_limit"
      [] u = "Exception" -> "failure"
      [] u = "user" /\ t.kind = "TooManyRequests" -> "rate_limit"
      [] u = "user" /\ t.kind = "Exception" -> "failure"
      [] u = "user" /\ t.kind = "data" /\ ~Truthy(t.data) -> "empty"
      [] OTHER -> "posts"

ReturnsOf(o) ==
    {<<FetchResult(u, t).user, FetchResult(u, t).tweets>> :
        <<u, t>> \in {x \in GetUserOutcomes \X GetUsersTweetsOutcomes(MaxResults(count)) :
                         OutcomeOf(x[1], x[2]) = o}}

HasTable == df.type = "list"

\* create_metrics_dataframe has just returned its table.
TableBuilt == pc = "report"

\* display_detailed_metrics has just made its report.
ReportMade == pc = "ask_save"

\* The number of rows of tbl equal to row.
Occurrences(tbl, row) == Cardinality({i \in 1..Len(tbl) : tbl[i] = row})

-----------------------------------------------------------------------------
(* Properties *)

\* C1 as stated: every table built has exactly one row per unique post
\* identifier of the fetched list and its rows are in strictly descending
\* order of timestamp.
C1_OneRowPerIdStrictlyDescending ==
    TableBuilt =>
        /\ \A k \in {tweets.items[i].id : i \in 1..Len(tweets.items)} :
               Cardinality({i \in 1..Len(df.items) : df.items[i].id = k}) = 1
        /\ \A i \in 1..(Len(df.items) - 1) :
               df.items[i].fecha > df.items[i + 1].fecha

\* C1 amended: every table built has exactly one row per fetched post (a post
\* that occurs k times in the list has k rows) and its rows are in
\* non-increasing order of timestamp.
C1_OneRowPerPostDescending ==
    TableBuilt =>
        /\ Len(df.items) = Len(tweets.items)
        /\ \A i \in 1..Len(tweets.items) :
               Occurrences(df.items, TweetInfo(tweets.items[i]))
                   = Occurrences(TweetsData(tweets.items), TweetInfo(tweets.items[i]))
        /\ \A i, j \in 1..Len(df.items) :
               i < j => df.items[i].fecha >= df.items[j].fecha

\* A table built from two different posts that carry the same identifier and
\* the same timestamp.
C1_Witness ==
    /\ TableBuilt
    /\ Len(df.items) = 2
    /\ df.items[1].id = df.items[2].id
    /\ df.items[1].fecha = df.items[2].fecha
    /\ df.items[1].likes # df.items[2].likes

\* C7 as stated: max_results of every get_users_tweets request lies in 1..100.
C7_ClampedBothSides ==
    \A i \in 1..Len(calls) :
        calls[i].fn = "get_users_tweets" =>
            calls[i].max_results >= 1 /\ calls[i].max_results <= MaxPage

\* C7 amended: max_results of every get_users_tweets request is the count
\* capped at 100: never above 100, equal to the count when the count is at
\* most 100 (a count below 1 is passed on unchanged).
C7_CappedAbove ==
    \A i \in 1..Len(calls) :
        calls[i].fn = "get_users_tweets" =>
            /\ calls[i].max_results <= MaxPage
            /\ count <= MaxPage => calls[i].max_results = count
            /\ count > MaxPage => calls[i].max_results = MaxPage

\* A request made for a count above one page.
C7_Witness ==
    /\ Called("get_users_tweets")
    /\ count > MaxPage

\* C8: in every report the most-liked and the most-retweeted post are the
\* first rows of the table holding the maximum of the metric, and the
\* most-viewed post is shown exactly when the views total is positive (and is
\* then the first row holding the maximum).
C8_TopPostsFirstMaximum ==
    ReportMade =>
        LET t == df.items
            FirstMax(i, name) ==
                /\ i \in 1..Len(t)
                /\ \A j \in 1..Len(t) : t[j][name] <= t[i][name]
                /\ \A j \in 1..Len(t) : t[j][name] = t[i][name] => i <= j
        IN  /\ report.max_likes.shown /\ FirstMax(report.max_likes.idx, "likes")
            /\ report.max_rts.shown /\ FirstMax(report.max_rts.idx, "retweets")
            /\ report.max_views.shown
                   <=> \E i \in 1..Len(t) : t[i].vistas > 0
            /\ report.max_views.shown => FirstMax(report.max_views.idx, "vistas")

\* A report over two rows that tie for the most likes and have no views.
C8_Witness ==
    /\ ReportMade
    /\ Len(df.items) = 2
    /\ df.items[1].likes = 1 /\ df.items[2].likes = 1
    /\ df.items[1].id # df.items[2].id
    /\ ~report.max_views.shown

\* C9: a post whose metrics lack the view or the quote counter has a row
\* holding 0 for it, every row has all its columns, and table construction
\* fails only for a post that lacks a required counter.
C9_MissingOptionalIsZero ==
    /\ TableBuilt =>
         /\ \A i \in 1..Len(df.items) :
                /\ DOMAIN df.items[i] = {"id", "fecha", "likes", "retweets",
                                         "respuestas", "vistas", "citas"}
                /\ df.items[i].vistas \in Nat /\ df.items[i].citas \in Nat
         /\ \A i \in 1..Len(tweets.items) :
                LET t == tweets.items[i] IN
                \E j \in 1..Len(df.items) :
                    LET r == df.items[j] IN
                    /\ r.id = t.id /\ r.fecha = t.created_at
                    /\ r.likes = t.public_metrics["like_count"]
                    /\ r.retweets = t.public_metrics["retweet_count"]
                    /\ "impression_count" \notin DOMAIN t.public_metrics => r.vistas = 0
                    /\ "impression_count" \in DOMAIN t.public_metrics
                           => r.vistas = t.public_metrics["impression_count"]
                    /\ "quote_count" \notin DOMAIN t.public_metrics => r.citas = 0
    /\ pc = "crashed" /\ ~HasTable =>
         \E i \in 1..Len(tweets.items) :
             ~(RequiredKeys \subseteq DOMAIN tweets.items[i].public_metrics)

\* A table built from a post without the optional counters.
C9_Witness ==
    /\ TableBuilt
    /\ \E i \in 1..Len(tweets.items) :
           DOMAIN tweets.items[i].public_metrics = RequiredKeys

\* C2 as stated: a run whose fetch found the account but no posts ends with
\* an empty report made by the Reporter, which computes no statistics and
\* does not fail, and with export and plot skipped.
C2_EmptyReportProduced ==
    FetchOutcome = "empty" /\ pc = "done" =>
        /\ Called("display_detailed_metrics")
        /\ ~Printed("Statistics")
        /\ exc = NoneVal
        /\ ~Called("save_analysis_to_excel") /\ ~Called("plot_metrics")

\* C2 amended: a run whose fetch found the account but no posts is ended by
\* main right after the fetch with the message it prints for a failed fetch;
\* no table is built, the Reporter is not run (so no statistics are computed
\* and nothing fails), and neither prompt, export nor plot is reached.
C2_EmptyResultAborts ==
    FetchOutcome = "empty" /\ pc # "fetched" =>
        /\ pc = "done"
        /\ LastPrinted = "ErrNoTweets"
        /\ exc = NoneVal /\ df = NoneVal /\ report = NoneVal
        /\ \A f \in {"create_metrics_dataframe", "display_detailed_metrics",
                     "input_save", "save_analysis_to_excel", "input_plot",
                     "plot_metrics"} : ~Called(f)

\* A finished run whose fetch found the account and no posts.
C2_Witness ==
    /\ pc = "done"
    /\ user_info = TheUser
    /\ tweets = PyList(<<>>)

\* C3 as stated: the pair returned by the fetch is returned for no other of
\* the outcomes not found, rate limit, other failure, empty result.
C3_ReturnTellsOutcome ==
    pc = "fetched" /\ FetchOutcome \in FourOutcomes =>
        \A o \in FourOutcomes \ {FetchOutcome} :
            <<user_info, tweets>> \notin ReturnsOf(o)

\* C3 amended: the fetch returns (None, None) for not found, for rate limit
\* and for any other failure alike, telling them apart only by the message
\* it prints; it returns (user, []) for the empty result, which differs from
\* the failures; and main takes one and the same branch for all four: it
\* prints that the tweets could not be obtained and returns.
C3_ReturnTellsFailureOnly ==
    /\ pc = "fetched" /\ FetchOutcome \in {"not_found", "rate_limit", "failure"} =>
           /\ user_info = NoneVal /\ tweets = NoneVal
           /\ \A o \in {"not_found", "rate_limit", "failure"} :
                  <<user_info, tweets>> \in ReturnsOf(o)
           /\ <<user_info, tweets>> \notin ReturnsOf("empty")
           /\ Cardinality({m \in {"ErrUserNotFound", "ErrRateLimit", "ErrFetch"} :
                              Printed(m)}) = 1
    /\ pc = "fetched" /\ FetchOutcome = "empty" =>
           user_info = TheUser /\ tweets = PyList(<<>>)
    /\ FetchOutcome \in FourOutcomes /\ pc # "fetched" =>
           pc = "done" /\ LastPrinted = "ErrNoTweets"

\* A fetch that ended on the rate limit.
C3_Witness ==
    /\ pc = "fetched"
    /\ FetchOutcome = "rate_limit"

\* C4: no run ends with an exception that nothing caught.
C4_NoUnhandledException == pc # "crashed" /\ exc = NoneVal

\* C5: with the placeholder token nothing is called at all (no client, no
\* prompt, no request); after the empty-username message no request has been
\* made; and either message ends the run.
C5_ConfigErrorBeforeNetwork ==
    /\ token = Placeholder => calls = <<>> /\ client = NoneVal
    /\ Printed("ErrUsername") => \A f \in NetworkCalls : ~Called(f)
    /\ Printed("ConfigRequired") \/ Printed("ErrUsername") => pc = "done"

\* A run ended by an empty username.
C5_Witness ==
    /\ pc = "done"
    /\ Printed("ErrUsername")
    /\ username = <<>>

\* C6: a failed export or plot leaves no exception uncaught; after a failed
\* export the plot prompt is still asked; after either failure main always
\* has its next step to take, and a run with either failure that has ended
\* has printed the completion message last.
C6_ExportPlotFailureNonFatal ==
    /\ Printed("ErrExcel") => pc \in {"ask_plot", "finish", "done"} /\ exc = NoneVal
    /\ Printed("ErrExcel") /\ pc \in {"finish", "done"} => Called("input_plot")
    /\ Printed("ErrPlot") => pc \in {"finish", "done"} /\ exc = NoneVal
    /\ Called("save_analysis_to_excel") /\ pc # "ask_save" =>
           Printed("ErrExcel") \/ Printed("Saved")
    /\ (Printed("ErrExcel") \/ Printed("ErrPlot")) /\ pc = "ask_plot" => ENABLED PlotStep
    /\ (Printed("ErrExcel") \/ Printed("ErrPlot")) /\ pc = "finish" => ENABLED Finish
    /\ (Printed("ErrExcel") \/ Printed("ErrPlot")) /\ pc = "done" =>
           LastPrinted = "Completed"

\* A completed run in which both the export and the plot failed.
C6_Witness ==
    /\ pc = "done"
    /\ Printed("ErrExcel")
    /\ Printed("ErrPlot")
    /\ LastPrinted = "Completed"

\* The place of each call in the order of the stages.
StageRank(f) ==
    CASE f = "Client" -> 1
      [] f = "input_username" -> 2
      [] f = "get_user" -> 3
      [] f = "get_users_tweets" -> 4
      [] f = "create_metrics_dataframe" -> 5
      [] f = "display_detailed_metrics" -> 6
      [] f = "input_save" -> 7
      [] f = "save_analysis_to_excel" -> 8
      [] f = "input_plot" -> 9
      [] f = "plot_metrics" -> 10

\* C10: the calls of a run are made at most once each and in the order of
\* the stages; a stage is entered only after the stage before it succeeded;
\* the report precedes both prompts; export and plot are called exactly when
\* the answer to their own prompt is yes.
C10_StagesInOrder ==
    LET made == {calls[i].fn : i \in 1..Len(calls)} IN
    /\ \A i \in 1..(Len(calls) - 1) :
           StageRank(calls[i].fn) < StageRank(calls[i + 1].fn)
    /\ "input_username" \in made => "Client" \in made /\ client = TheClient
    /\ "get_user" \in made => "input_username" \in made /\ username # <<>>
    /\ "get_users_tweets" \in made => "get_user" \in made
    /\ "create_metrics_dataframe" \in made =>
           "get_users_tweets" \in made /\ Truthy(tweets)
    /\ "display_detailed_metrics" \in made =>
           "create_metrics_dataframe" \in made /\ HasTable
    /\ "input_save" \in made \/ "input_plot" \in made =>
           "display_detailed_metrics" \in made /\ report # NoneVal
    /\ "input_plot" \in made => "input_save" \in made
    /\ "input_save" \in made =>
           ("save_analysis_to_excel" \in made <=> save_option = PyStr(<<"s">>))
    /\ "input_plot" \in made =>
           ("plot_metrics" \in made <=> plot_option = PyStr(<<"s">>))
    /\ "input_save" \notin made => "save_analysis_to_excel" \notin made
    /\ "input_plot" \notin made => "plot_metrics" \notin made

\* A completed run that skipped the export and made the plot.
C10_Witness ==
    /\ pc = "done"
    /\ ~Called("save_analysis_to_excel")
    /\ Called("plot_metrics")
    /\ save_option = PyStr(<<"n">>)

====
